---------------------------- MODULE Spec2Model ----------------------------
(***************************************************************************)
(* Model of the calendar parser (parse_calendar.py): segment classifier,    *)
(* event segmenter (merge_events), field formatter and extraction driver.  *)
(* Text is modelled as TLA+ strings, one character per position.           *)
(***************************************************************************)
EXTENDS Integers, Sequences, FiniteSets, TLC

(***************************************************************************)
(* Python str primitives (ASCII).                                          *)
(***************************************************************************)
UPPER_LETTERS == "ABCDEFGHIJKLMNOPQRSTUVWXYZ"
LOWER_LETTERS == "abcdefghijklmnopqrstuvwxyz"
DIGIT_CHARS == "0123456789"

\* s[i] (1-based), "" outside the string
Ch(s, i) == IF i \in 1..Len(s) THEN SubSeq(s, i, i) ELSE ""

CharsOf(str) == {SubSeq(str, k, k) : k \in 1..Len(str)}
UPPER_SET == CharsOf(UPPER_LETTERS)
LOWER_SET == CharsOf(LOWER_LETTERS)
DIGIT_SET == CharsOf(DIGIT_CHARS)
ALPHA_SET == CharsOf(UPPER_LETTERS \o LOWER_LETTERS)

\* 1-based position of the character c in str
PosIn(c, str) == CHOOSE k \in 1..Len(str) : SubSeq(str, k, k) = c

IsDigitCh(c) == c \in DIGIT_SET
IsUpperCh(c) == c \in UPPER_SET
IsLowerCh(c) == c \in LOWER_SET
IsAlphaCh(c) == c \in ALPHA_SET
IsSpaceCh(c) == c = " "

UpperCh(c) == IF c \in LOWER_SET THEN SubSeq(UPPER_LETTERS, PosIn(c, LOWER_LETTERS),
                                             PosIn(c, LOWER_LETTERS))
              ELSE c

\* str.upper()
RECURSIVE Upper(_)
Upper(s) == IF s = "" THEN "" ELSE UpperCh(Head(s)) \o Upper(Tail(s))

\* s[i:].startswith(p) (1-based i)
At(s, i, p) == i >= 1 /\ i + Len(p) - 1 <= Len(s) /\ SubSeq(s, i, i + Len(p) - 1) = p

\* sub in s
Contains(s, sub) == \E i \in 1..(Len(s) - Len(sub) + 1) : At(s, i, sub)

\* 1-based index of the first occurrence of sub in s (which holds one)
Find(s, sub) == CHOOSE i \in 1..Len(s) : At(s, i, sub) /\ \A j \in 1..(i - 1) : ~At(s, j, sub)

\* s.startswith(p) / s.endswith(p)
StartsWith(s, p) == At(s, 1, p)
EndsWith(s, p) == At(s, Len(s) - Len(p) + 1, p)

Min(S) == CHOOSE x \in S : \A y \in S : x <= y
Max(S) == CHOOSE x \in S : \A y \in S : y <= x

\* s.strip(chars): chars is a string listing the characters to remove
StripChars(s, chars) ==
    LET cut(keep) == IF keep = {} THEN "" ELSE SubSeq(s, Min(keep), Max(keep))
    IN  cut({i \in 1..Len(s) : Ch(s, i) \notin CharsOf(chars)})

\* s.strip()
Strip(s) == StripChars(s, " ")

\* s.split(sep) for a one-character separator: every field, empty ones included
RECURSIVE SplitOn(_, _)
SplitOn(s, sep) ==
    IF Contains(s, sep)
    THEN <<SubSeq(s, 1, Find(s, sep) - 1)>>
             \o SplitOn(SubSeq(s, Find(s, sep) + 1, Len(s)), sep)
    ELSE <<s>>

\* s.split(): split on runs of whitespace, no empty fields
SplitWords(s) == SelectSeq(SplitOn(s, " "), LAMBDA w : w # "")

\* sep.join(parts)
RECURSIVE Join(_, _)
Join(parts, sep) ==
    IF parts = <<>> THEN ""
    ELSE IF Len(parts) = 1 THEN parts[1]
    ELSE parts[1] \o sep \o Join(Tail(parts), sep)

\* s.replace(old, new), leftmost non-overlapping occurrences
RECURSIVE Replace(_, _, _)
Replace(s, old, new) ==
    IF Contains(s, old)
    THEN SubSeq(s, 1, Find(s, old) - 1) \o new
             \o Replace(SubSeq(s, Find(s, old) + Len(old), Len(s)), old, new)
    ELSE s

\* [part.strip() for part in parts if part.strip()]
StripAll(parts) == SelectSeq([k \in 1..Len(parts) |-> Strip(parts[k])], LAMBDA q : q # "")

Range(f) == {f[k] : k \in DOMAIN f}

\* any(ch.isdigit() for ch in text)
segment_has_digits(text) == \E k \in 1..Len(text) : IsDigitCh(Ch(text, k))

(***************************************************************************)
(* Program constants (parse_calendar.py lines 14-89).                      *)
(***************************************************************************)
DAY_NAMES_UPPER ==
    {"MONDAY", "TUESDAY", "WEDNESDAY", "THURSDAY", "FRIDAY", "SATURDAY", "SUNDAY"}

TIME_COLUMN_X_THRESHOLD == 70
LINE_CLUSTER_TOLERANCE == 3
INDENT_NEW_EVENT_THRESHOLD == 25
FOOTER_X_THRESHOLD == 200

NOISE_SEGMENTS == {"BOI BOI"}
SPECIAL_SPLIT_MARKERS == <<"CHIEF'S CONFERENCE", "CHIEFS CONFERENCE">>
LOCATION_HINTS ==
    {"MICROSOFT TEAMS", "IN PERSON", "TELECONFERENCE", "ZOOM", "BOI", "ANC", "JNU",
     "ROOM", "CONF", "SUITE", "FLOOR", "OFFICE", "BUILDING", "CAPITOL", "ANCHORAGE",
     "JUNEAU", "PALMER", "FAIRBANKS", "TEAMS"}
FORCED_EVENT_PREFIXES ==
    {"CHECK IN", "STATEHOOD", "OP-ED", "OP ED", "WORK ON LIST", "UPDATE",
     "CHIEF'S CONFERENCE"}
PERSON_HINTS ==
    {"GOV)", "LAW)", "DNR)", "DOL)", "DOC)", "DEC)", "DOT)", "EDU)", "JUD)", "LEG)"}
MEETING_TYPE_KEYWORDS ==
    {"MTG:", "HEARING", "BRIEFING", "INTERVIEW", "DEFENSE", "REVIEW", "PRESS CONFERENCE"}
NON_PERSON_KEYWORDS ==
    {"STATEHOOD", "DEFENSE", "MEETING", "CONFERENCE", "CABINET", "BRIEFING"}
\* the names '%B' accepts, in any case
MONTH_NAMES_UPPER ==
    <<"JANUARY", "FEBRUARY", "MARCH", "APRIL", "MAY", "JUNE", "JULY", "AUGUST",
      "SEPTEMBER", "OCTOBER", "NOVEMBER", "DECEMBER">>

ContainsAny(s, subs) == \E sub \in subs : Contains(s, sub)

(***************************************************************************)
(* Regular expressions of the program, as matchers.                        *)
(***************************************************************************)
\* end (exclusive) of the maximal run of characters of the set cs from i
RunEnd(s, i, cs) == Min({j \in i..(Len(s) + 1) : Ch(s, j) \notin cs})

\* start of the maximal run of characters of the set cs that ends before j
RunStart(s, j, cs) == Max({k \in 1..j : Ch(s, k - 1) \notin cs})

RECURSIVE ToNat(_)
ToNat(s) == IF s = "" THEN 0
            ELSE 10 * ToNat(SubSeq(s, 1, Len(s) - 1)) + PosIn(Ch(s, Len(s)), DIGIT_CHARS) - 1

\* DATE_PATTERN = ([A-Za-z]+ \d{1,2}, \d{4}): the positions c of a comma
\* with letters, ' ' and one or two digits before it and ' ' and four digits
\* after it
DateCommas(s) ==
    {c \in 1..Len(s) :
        /\ Ch(s, c) = ","
        /\ IsDigitCh(Ch(s, c - 1))
        /\ \/ Ch(s, c - 2) = " " /\ IsAlphaCh(Ch(s, c - 3))
           \/ IsDigitCh(Ch(s, c - 2)) /\ Ch(s, c - 3) = " " /\ IsAlphaCh(Ch(s, c - 4))
        /\ Ch(s, c + 1) = " "
        /\ \A d \in 2..5 : IsDigitCh(Ch(s, c + d))}

\* DATE_PATTERN.search(s).group(1), or "" if there is no match: the match
\* that starts leftmost starts with the whole run of letters
DateSearch(s) ==
    LET match(commas) ==
            IF commas = {} THEN ""
            ELSE SubSeq(s, RunStart(s, RunStart(s, Min(commas), DIGIT_SET) - 1, ALPHA_SET),
                        Min(commas) + 5)
    IN  match(DateCommas(s))

\* DIGITS_ONLY_PATTERN = ^[0-9]+$ , fullmatch
DigitsOnly(s) == s # "" /\ \A k \in 1..Len(s) : IsDigitCh(Ch(s, k))

\* ends (exclusive) of the matches of [A-Z][a-z]+ starting at i
CapWordEnds(s, i) ==
    {j \in (i + 2)..(Len(s) + 1) :
        IsUpperCh(Ch(s, i)) /\ \A k \in (i + 1)..(j - 1) : IsLowerCh(Ch(s, k))}

\* the positions P, and those after one more " [A-Z][a-z]+"
OrNextCapWord(s, P) ==
    P \cup UNION {IF Ch(s, q) = " " THEN CapWordEnds(s, q + 1) ELSE {} : q \in P}

\* the positions P, and those after one more " [A-Z]\."
OrInitial(s, P) ==
    P \cup {q + 3 : q \in {r \in P : Ch(s, r) = " " /\ IsUpperCh(Ch(s, r + 1))
                                        /\ Ch(s, r + 2) = "."}}

\* (?: \(.+\))? up to the end of s, from one of the positions P
ParenToEnd(s, P) ==
    \/ (Len(s) + 1) \in P
    \/ \E q \in P : Ch(s, q) = " " /\ Ch(s, q + 1) = "(" /\ Len(s) >= q + 3
                       /\ Ch(s, Len(s)) = ")"

\* [A-Z][a-z]+(?: [A-Z][a-z]+){0,2}(?: [A-Z]\.)?(?: \(.+\))? , fullmatch
NameShape(s) ==
    ParenToEnd(s, OrInitial(s, OrNextCapWord(s, OrNextCapWord(s, CapWordEnds(s, 1)))))

\* ^\d{1,2}[:.]\d{2} , match
ClockShape(s) ==
    \E n \in 1..2 :
        /\ \A k \in 1..n : IsDigitCh(Ch(s, k))
        /\ Ch(s, n + 1) \in {":", "."}
        /\ IsDigitCh(Ch(s, n + 2))
        /\ IsDigitCh(Ch(s, n + 3))

\* ^\d{1,2}\s?(AM|PM) , match (on the upper-cased text)
AmPmShape(s) ==
    \E n \in 1..2, sp \in 0..1 :
        /\ \A k \in 1..n : IsDigitCh(Ch(s, k))
        /\ sp = 1 => Ch(s, n + 1) = " "
        /\ At(s, n + sp + 1, "AM") \/ At(s, n + sp + 1, "PM")

\* [A-Z][a-z]+,\s+[A-Z] , search: 1-based starts of the matches
LastFirstStarts(s) ==
    {k \in 1..Len(s) :
        \E j \in CapWordEnds(s, k) :
            /\ Ch(s, j) = ","
            /\ Ch(s, j + 1) = " "
            /\ IsUpperCh(Ch(s, RunEnd(s, j + 1, {" "})))}

(***************************************************************************)
(* Segment classifier.                                                     *)
(***************************************************************************)
is_location_segment(segment) ==
    LET rule(upper) ==
            IF upper = "" THEN FALSE
            ELSE IF Contains(upper, "TELECONFERENCE") THEN TRUE
            ELSE IF Contains(upper, "CHIEF'S CONFERENCE") THEN FALSE
            ELSE IF Contains(upper, "CONFERENCE")
                    /\ ~ContainsAny(upper, {"ROOM", "CENTER", "CALL", "LINE"}) THEN FALSE
            ELSE ContainsAny(upper, LOCATION_HINTS)
    IN  rule(Upper(Strip(segment)))

\* lines 357-360: a comma, no digit, and a comma-separated part starting with a letter
CommaNameShape(cleaned) ==
    /\ Contains(cleaned, ",")
    /\ ~segment_has_digits(cleaned)
    /\ \E part \in Range(StripAll(SplitOn(cleaned, ","))) : IsAlphaCh(Ch(part, 1))

\* is_person_segment without the check of line 351
is_person_segment_unchecked(segment) ==
    LET rule(cleaned, upper) ==
            IF cleaned = "" THEN FALSE
            ELSE IF StartsWith(upper, "PH:") THEN FALSE
            ELSE IF Contains(upper, "TELECONFERENCE") THEN FALSE
            ELSE IF StartsWith(upper, "MTG:") THEN FALSE
            ELSE IF ContainsAny(upper, NON_PERSON_KEYWORDS) THEN FALSE
            ELSE IF CommaNameShape(cleaned) THEN TRUE
            ELSE IF NameShape(cleaned) THEN TRUE
            ELSE ContainsAny(upper, PERSON_HINTS)
    IN  rule(Strip(segment), Upper(Strip(segment)))

is_person_segment(segment) ==
    LET rule(cleaned, upper) ==
            IF cleaned = "" THEN FALSE
            ELSE IF StartsWith(upper, "PH:") THEN FALSE
            ELSE IF Contains(upper, "TELECONFERENCE") THEN FALSE
            ELSE IF is_location_segment(segment) THEN FALSE
            ELSE IF StartsWith(upper, "MTG:") THEN FALSE
            ELSE IF ContainsAny(upper, NON_PERSON_KEYWORDS) THEN FALSE
            ELSE IF CommaNameShape(cleaned) THEN TRUE
            ELSE IF NameShape(cleaned) THEN TRUE
            ELSE ContainsAny(upper, PERSON_HINTS)
    IN  rule(Strip(segment), Upper(Strip(segment)))

\* lines 162-164: 2 to 8 words, at most one of them not capitalized
TitleLike(cleaned) ==
    LET rule(ws) ==
            /\ 1 < Len(ws)
            /\ Len(ws) <= 8
            /\ Cardinality({k \in 1..Len(ws) : IsUpperCh(Ch(ws[k], 1))}) >= Len(ws) - 1
    IN  rule(SplitWords(cleaned))

should_force_new_event(segment, current) ==
    LET rule(cleaned, upper) ==
            IF cleaned = "" THEN FALSE
            ELSE IF StartsWith(upper, "PH:") THEN FALSE
            ELSE IF Contains(upper, "TELECONFERENCE") THEN FALSE
            ELSE IF is_location_segment(segment) THEN FALSE
            ELSE IF NameShape(cleaned) THEN TRUE
            ELSE IF ContainsAny(upper, PERSON_HINTS) THEN FALSE
            ELSE IF ClockShape(cleaned) THEN TRUE
            ELSE IF AmPmShape(upper) THEN TRUE
            ELSE IF \E prefix \in FORCED_EVENT_PREFIXES : StartsWith(upper, prefix) THEN TRUE
            ELSE IF ContainsAny(upper, MEETING_TYPE_KEYWORDS)
                 THEN IF ~ContainsAny(upper, LOCATION_HINTS) THEN TRUE
                      ELSE IF TitleLike(cleaned) THEN ~ContainsAny(upper, LOCATION_HINTS)
                      ELSE FALSE
            ELSE FALSE
    IN  rule(Strip(segment), Upper(Strip(segment)))

\* 'BOLD' in font_name or 'BD' in font_name or 'BLACK' in font_name
is_bold_word(word) == ContainsAny(Upper(word.fontname), {"BOLD", "BD", "BLACK"})

(***************************************************************************)
(* Segment splitter.                                                       *)
(***************************************************************************)
\* the starts of the matches of r'\s+' + marker, IGNORECASE, in s, whose
\* upper-cased text is upper
MarkerHits(s, upper, marker) ==
    {k \in 1..Len(s) : Ch(s, k) = " " /\ At(upper, RunEnd(s, k, {" "}), marker)}

\* pattern.sub(lambda m: '; ' + m.group(0).strip(), s): each whitespace run
\* followed by the marker becomes '; ' followed by the marker text as written
RECURSIVE SubMarker(_, _)
SubMarker(s, marker) ==
    LET sub(k) ==
            SubSeq(s, 1, k - 1) \o "; "
                \o SubSeq(s, RunEnd(s, k, {" "}), RunEnd(s, k, {" "}) + Len(marker) - 1)
                \o SubMarker(SubSeq(s, RunEnd(s, k, {" "}) + Len(marker), Len(s)), marker)
        first(hits) == IF hits = {} THEN s ELSE sub(Min(hits))
    IN  first(MarkerHits(s, Upper(s), marker))

split_event_text(event_text) ==
    IF event_text = "" THEN <<>>
    ELSE SelectSeq(
             StripAll(SplitOn(
                 SubMarker(SubMarker(Replace(event_text, " PH:", ";PH:"),
                                     SPECIAL_SPLIT_MARKERS[1]),
                           SPECIAL_SPLIT_MARKERS[2]),
                 ";")),
             LAMBDA part : Upper(part) \notin NOISE_SEGMENTS)

(***************************************************************************)
(* Field formatter.                                                        *)
(***************************************************************************)
\* re.sub(r'\s+', ' ', s): every whitespace run becomes one space
RECURSIVE CollapseSpaces(_)
CollapseSpaces(s) ==
    IF s = "" THEN ""
    ELSE IF Head(s) = " "
         THEN " " \o CollapseSpaces(SubSeq(s, RunEnd(s, 1, {" "}), Len(s)))
         ELSE Head(s) \o CollapseSpaces(Tail(s))

normalize_for_compare(value) == StripChars(CollapseSpaces(Upper(value)), " ;")

should_skip_segment(value, field1) ==
    LET same_or_tail(upper, field_norm) == upper = field_norm \/ EndsWith(field_norm, upper)
    IN  same_or_tail(StripChars(Upper(value), " ;"), normalize_for_compare(field1))

\* lines 391-400: the pieces a kept segment contributes to processed_rest
SplitAtName(segment) ==
    LET cut(start) ==
            SelectSeq(<<StripChars(SubSeq(segment, 1, start - 1), " ;"),
                        Strip(SubSeq(segment, start, Len(segment)))>>,
                      LAMBDA q : q # "")
        split(starts) ==
            IF starts # {} /\ Min(starts) > 1 THEN cut(Min(starts)) ELSE <<segment>>
    IN  split(LastFirstStarts(segment))

\* process_segment without the branch of lines 385-387: a "PH:" segment is
\* handled like any other segment
process_segment_no_fold(acc, segment) ==
    IF segment = "" THEN acc
    ELSE IF should_skip_segment(segment, acc.field1) THEN acc
    ELSE [acc EXCEPT !.processed_rest = @ \o SplitAtName(segment)]

\* lines 383-400: one iteration of the loop over rest_raw; acc is
\* [field1, processed_rest]
process_segment(acc, segment) ==
    IF segment = "" THEN acc
    ELSE IF StartsWith(Upper(segment), "PH:")
    THEN [acc EXCEPT !.field1 = Strip(@ \o " " \o segment)]
    ELSE IF should_skip_segment(segment, acc.field1) THEN acc
    ELSE [acc EXCEPT !.processed_rest = @ \o SplitAtName(segment)]

RECURSIVE ProcessRest(_, _)
ProcessRest(rest_raw, acc) ==
    IF rest_raw = <<>> THEN acc
    ELSE ProcessRest(Tail(rest_raw), process_segment(acc, Head(rest_raw)))

\* '; '.join(part.strip() for part in parts if part.strip())
JoinParts(parts) == Join(StripAll(parts), "; ")

\* clean_meeting_place: <<>> where it raises IndexError, which is when the
\* text starts with "PH:" in another case than upper case and holds no "PH:"
clean_meeting_place(text) ==
    LET clean(cleaned) ==
            IF ~StartsWith(Upper(cleaned), "PH:") THEN <<cleaned>>
            ELSE IF ~Contains(cleaned, "PH:") THEN <<>>
            ELSE <<Strip(SubSeq(cleaned, Find(cleaned, "PH:") + 3, Len(cleaned)))>>
    IN  clean(Strip(text))

\* classify_parts with the test of line 415 joined to the test of line 414
classify_parts_flat(field1, processed_rest) ==
    LET adjust(field_upper, meetings, persons) ==
            IF Contains(field_upper, "PH: INTERVIEW") /\ meetings # <<>>
            THEN [field1 |-> field1, meeting_parts |-> <<>>,
                  person_parts |-> meetings \o persons]
            ELSE IF StartsWith(field_upper, "PH:") /\ meetings = <<>> /\ persons # <<>>
            THEN [field1 |-> field1, meeting_parts |-> persons, person_parts |-> <<>>]
            ELSE IF StartsWith(field_upper, "MTG:") /\ meetings = <<>> /\ persons # <<>>
            THEN [field1 |-> field1, meeting_parts |-> persons, person_parts |-> <<>>]
            ELSE [field1 |-> field1, meeting_parts |-> meetings, person_parts |-> persons]
        classify(rest, flags) ==
            adjust(Upper(field1),
                   SelectSeq(rest, LAMBDA q : ~flags[q]),
                   SelectSeq(rest, LAMBDA q : flags[q]))
        nonempty(rest) == classify(rest, [q \in Range(rest) |-> is_person_segment(q)])
    IN  nonempty(SelectSeq(processed_rest, LAMBDA q : q # ""))

\* lines 402-423: the two lists after classification and post-processing
classify_parts(field1, processed_rest) ==
    LET adjust(field_upper, meetings, persons) ==
            IF Contains(field_upper, "PH: INTERVIEW")
            THEN IF meetings # <<>>
                 THEN [field1 |-> field1, meeting_parts |-> <<>>,
                       person_parts |-> meetings \o persons]
                 ELSE [field1 |-> field1, meeting_parts |-> meetings,
                       person_parts |-> persons]
            ELSE IF StartsWith(field_upper, "PH:") /\ meetings = <<>> /\ persons # <<>>
            THEN [field1 |-> field1, meeting_parts |-> persons, person_parts |-> <<>>]
            ELSE IF StartsWith(field_upper, "MTG:") /\ meetings = <<>> /\ persons # <<>>
            THEN [field1 |-> field1, meeting_parts |-> persons, person_parts |-> <<>>]
            ELSE [field1 |-> field1, meeting_parts |-> meetings, person_parts |-> persons]
        classify(rest, flags) ==
            adjust(Upper(field1),
                   SelectSeq(rest, LAMBDA q : ~flags[q]),
                   SelectSeq(rest, LAMBDA q : flags[q]))
        nonempty(rest) == classify(rest, [q \in Range(rest) |-> is_person_segment(q)])
    IN  nonempty(SelectSeq(processed_rest, LAMBDA q : q # ""))

\* lines 371-423: field1 and the two lists as they stand before the joins
format_parts(segments) ==
    LET classify(done) == classify_parts(done.field1, done.processed_rest)
    IN  classify(ProcessRest(StripAll(Tail(segments)),
                             [field1 |-> Strip(segments[1]), processed_rest |-> <<>>]))

\* lines 425-430: the returned tuple (event_name, meeting_place, person);
\* raised marks the IndexError of clean_meeting_place, when nothing is returned
join_fields(parts) ==
    LET result(place) ==
            IF place = <<>>
            THEN [raised |-> TRUE, event_name |-> "", meeting_place |-> "", person |-> ""]
            ELSE [raised |-> FALSE,
                  event_name |-> parts.field1,
                  meeting_place |-> place[1],
                  person |-> JoinParts(parts.person_parts)]
    IN  result(clean_meeting_place(JoinParts(parts.meeting_parts)))

format_event_segments(segments) ==
    IF segments = <<>>
    THEN [raised |-> FALSE, event_name |-> "", meeting_place |-> "", person |-> ""]
    ELSE join_fields(format_parts(segments))

(***************************************************************************)
(* Line builder and page header locator.  A word is a record               *)
(* [text, x0, top, fontname]; a line is a record [text, x0, words].        *)
(***************************************************************************)
\* sorted(cluster, key=x0): stable, so equal keys keep their order
RECURSIVE SortByX0(_)
SortByX0(ws) ==
    LET move(k) == <<ws[k]>> \o SortByX0(SubSeq(ws, 1, k - 1) \o SubSeq(ws, k + 1, Len(ws)))
    IN  IF ws = <<>> THEN <<>>
        ELSE move(CHOOSE k \in 1..Len(ws) :
                      /\ \A j \in 1..Len(ws) : ws[k].x0 <= ws[j].x0
                      /\ \A j \in 1..(k - 1) : ws[j].x0 # ws[k].x0)

WordTexts(ws) == [k \in 1..Len(ws) |-> ws[k].text]

\* cluster_objects(words, 'top', tolerance) groups the words whose 'top' are
\* chained by gaps of at most `tolerance`; the smallest 'top' of each cluster
ClusterHeads(tops, tolerance) ==
    {t \in tops : ~\E u \in tops : u < t /\ t - u <= tolerance}

\* lines 96-101: the line of one cluster, <<>> if its text is empty
make_line(cluster_sorted) ==
    IF Strip(Join(WordTexts(cluster_sorted), " ")) = "" THEN <<>>
    ELSE <<[text |-> Strip(Join(WordTexts(cluster_sorted), " ")),
            x0 |-> Min({cluster_sorted[k].x0 : k \in 1..Len(cluster_sorted)}),
            words |-> cluster_sorted]>>

\* the lines of the clusters headed by heads[n], heads[n+1], ...: a cluster
\* is the words from its head up to the next head, in their order of arrival
RECURSIVE build_lines_from(_, _, _)
build_lines_from(words, heads, n) ==
    IF n > Len(heads) THEN <<>>
    ELSE make_line(SortByX0(SelectSeq(words, LAMBDA w :
                      /\ heads[n] <= w.top
                      /\ n < Len(heads) => w.top < heads[n + 1])))
             \o build_lines_from(words, heads, n + 1)

RECURSIVE SortedSeq(_)
SortedSeq(S) == IF S = {} THEN <<>> ELSE <<Min(S)>> \o SortedSeq(S \ {Min(S)})

build_lines(words) ==
    build_lines_from(words,
        SortedSeq(ClusterHeads({words[k].top : k \in 1..Len(words)},
                               LINE_CLUSTER_TOLERANCE)),
        1)

DaysInMonth(year, month) ==
    IF month = 2
    THEN (IF (year % 4 = 0 /\ year % 100 # 0) \/ year % 400 = 0 THEN 29 ELSE 28)
    ELSE IF month \in {4, 6, 9, 11} THEN 30 ELSE 31

\* datetime.strptime(text, '%B %d, %Y').date() for a text DATE_PATTERN
\* matched: <<[year, month, day]>>, or <<>> where it raises ValueError
ParseLongDate(text) ==
    LET valid(year, months, day) ==
            IF months = {} \/ day < 1 \/ year < 1 THEN <<>>
            ELSE IF day > DaysInMonth(year, Min(months)) THEN <<>>
            ELSE <<[year |-> year, month |-> Min(months), day |-> day]>>
        fields(sp, comma) ==
            valid(ToNat(SubSeq(text, comma + 2, comma + 5)),
                  {m \in 1..12 : MONTH_NAMES_UPPER[m] = Upper(SubSeq(text, 1, sp - 1))},
                  ToNat(SubSeq(text, sp + 1, comma - 1)))
    IN  fields(RunEnd(text, 1, ALPHA_SET), Find(text, ","))

\* the first line with a date match that parses; <<>> for None
RECURSIVE extract_date(_)
extract_date(lines) ==
    LET try(match) ==
            IF match # "" /\ ParseLongDate(match) # <<>> THEN ParseLongDate(match)
            ELSE extract_date(Tail(lines))
    IN  IF lines = <<>> THEN <<>> ELSE try(DateSearch(Head(lines).text))

\* 1-based index of the first line that is exactly a day name; 0 for None
find_day_line_index(lines) ==
    LET first(hits) == IF hits = {} THEN 0 ELSE Min(hits)
    IN  first({idx \in 1..Len(lines) : Upper(Strip(lines[idx].text)) \in DAY_NAMES_UPPER})

RECURSIVE ZeroPad(_, _)
ZeroPad(digits, width) ==
    IF Len(digits) >= width THEN digits ELSE ZeroPad("0" \o digits, width)

RECURSIVE NatToStr(_)
NatToStr(n) ==
    IF n < 10 THEN Ch(DIGIT_CHARS, n + 1)
    ELSE NatToStr(n \div 10) \o Ch(DIGIT_CHARS, (n % 10) + 1)

\* date.isoformat(): YYYY-MM-DD
isoformat(d) ==
    ZeroPad(NatToStr(d.year), 4) \o "-" \o ZeroPad(NatToStr(d.month), 2)
        \o "-" \o ZeroPad(NatToStr(d.day), 2)

(***************************************************************************)
(* Event segmenter: merge_events.  Its local state is the record           *)
(* [events, current_segments, pending_new_event, current_event_x0,         *)
(*  pending_location_segments]; an x0 that may be None is <<>> or <<x>>.   *)
(***************************************************************************)
\* lines 181-185
merge_start ==
    [events |-> <<>>,
     current_segments |-> <<>>,
     pending_new_event |-> TRUE,
     current_event_x0 |-> <<>>,
     pending_location_segments |-> <<>>]

\* flush_current without the guard of line 189
flush_current_unguarded(st) ==
    [st EXCEPT !.events = Append(@, st.current_segments),
               !.current_segments = <<>>,
               !.pending_new_event = TRUE,
               !.current_event_x0 = <<>>]

\* lines 187-193
flush_current(st) ==
    [st EXCEPT !.events = IF st.current_segments # <<>>
                          THEN Append(@, st.current_segments) ELSE @,
               !.current_segments = <<>>,
               !.pending_new_event = TRUE,
               !.current_event_x0 = <<>>]

\* seed_pending_locations without the clear() of lines 224, 276, 283
seed_pending_locations_no_clear(st) ==
    IF st.pending_location_segments # <<>>
    THEN [st EXCEPT !.current_segments = @ \o st.pending_location_segments]
    ELSE st

\* lines 222-224, 274-276, 281-283: the held locations go to the open event
seed_pending_locations(st) ==
    IF st.pending_location_segments # <<>>
    THEN [st EXCEPT !.current_segments = @ \o st.pending_location_segments,
                    !.pending_location_segments = <<>>]
    ELSE st

\* is_region_end with x0 >= 200 in place of x0 > 200 at line 204
is_region_end_inclusive(line) ==
    LET ends(text) ==
            /\ text # ""
            /\ \/ Upper(text) \in DAY_NAMES_UPPER
               \/ DateSearch(text) # ""
               \/ DigitsOnly(text) /\ line.x0 >= FOOTER_X_THRESHOLD
    IN  ends(Strip(line.text))

\* lines 196-205: the line ends the schedule region
is_region_end(line) ==
    LET ends(text) ==
            /\ text # ""
            /\ \/ Upper(text) \in DAY_NAMES_UPPER
               \/ DateSearch(text) # ""
               \/ DigitsOnly(text) /\ line.x0 > FOOTER_X_THRESHOLD
    IN  ends(Strip(line.text))

\* lines 207-213: the column split of a line
time_words(line) == SelectSeq(line.words, LAMBDA w : w.x0 <= TIME_COLUMN_X_THRESHOLD)
event_words(line) == SelectSeq(line.words, LAMBDA w : w.x0 > TIME_COLUMN_X_THRESHOLD)
\* min((word['x0'] for word in event_words), default=None)
min_x0(ws) == IF ws = <<>> THEN <<>> ELSE <<Min({ws[k].x0 : k \in 1..Len(ws)})>>
\* any(is_bold_word(word) for word in event_words[:3])
first_words_bold(ws) == \E k \in 1..Len(ws) : k <= 3 /\ is_bold_word(ws[k])

all_person(segments) == \A k \in 1..Len(segments) : is_person_segment(segments[k])
all_location(segments) == \A k \in 1..Len(segments) : is_location_segment(segments[k])

\* lines 218-219, 242-243, 252-253
keep_first_x0(st, event_x0) ==
    IF event_x0 # <<>> /\ st.current_event_x0 = <<>>
    THEN [st EXCEPT !.current_event_x0 = event_x0]
    ELSE st

\* open_at_time with current_segments = segments in place of the extend of
\* line 226
open_at_time_overwrites(st, segments, event_x0) ==
    IF segments # <<>>
    THEN [st EXCEPT !.current_segments = segments,
                    !.pending_new_event = FALSE,
                    !.current_event_x0 = event_x0]
    ELSE [st EXCEPT !.pending_new_event = TRUE,
                    !.current_event_x0 = <<>>]

\* lines 221-232: a time line that opens a new event
open_at_time(st, segments, event_x0) ==
    IF segments # <<>>
    THEN [st EXCEPT !.current_segments = @ \o segments,
                    !.pending_new_event = FALSE,
                    !.current_event_x0 = event_x0]
    ELSE [st EXCEPT !.pending_new_event = TRUE,
                    !.current_event_x0 = <<>>]

\* time_line without the all(is_person_segment ...) test of line 216
time_line_any_segments(st, segments, event_x0) ==
    IF /\ segments # <<>>
       /\ ~st.pending_new_event
       /\ st.current_segments # <<>>
    THEN keep_first_x0([st EXCEPT !.current_segments = @ \o segments], event_x0)
    ELSE open_at_time(seed_pending_locations(flush_current(st)), segments, event_x0)

\* lines 215-232: a line with time-column tokens
time_line(st, segments, event_x0) ==
    IF /\ segments # <<>>
       /\ ~st.pending_new_event
       /\ st.current_segments # <<>>
       /\ all_person(segments)
    THEN keep_first_x0([st EXCEPT !.current_segments = @ \o segments], event_x0)
    ELSE open_at_time(seed_pending_locations(flush_current(st)), segments, event_x0)

\* forced_new_event with >= in place of > at line 259
forced_new_event_inclusive(st, segments, event_x0, bold, is_all_person) ==
    /\ st.current_segments # <<>>
    /\ \/ /\ event_x0 # <<>>
          /\ st.current_event_x0 # <<>>
          /\ event_x0[1] - st.current_event_x0[1] >= INDENT_NEW_EVENT_THRESHOLD
          /\ ~is_all_person
       \/ ~is_all_person /\ should_force_new_event(segments[1], st.current_segments)
       \/ bold /\ ~is_all_person /\ ~is_location_segment(segments[1])

\* lines 256-270; is_all_person is all_person(segments)
forced_new_event(st, segments, event_x0, bold, is_all_person) ==
    /\ st.current_segments # <<>>
    /\ \/ /\ event_x0 # <<>>
          /\ st.current_event_x0 # <<>>
          /\ event_x0[1] - st.current_event_x0[1] > INDENT_NEW_EVENT_THRESHOLD
          /\ ~is_all_person
       \/ ~is_all_person /\ should_force_new_event(segments[1], st.current_segments)
       \/ bold /\ ~is_all_person /\ ~is_location_segment(segments[1])

\* split_index without the skip of index 0 at lines 288-289
split_index_from_first(current) ==
    LET first(hits) == IF hits = {} THEN 0 ELSE Min(hits)
    IN  first({idx \in 1..Len(current) :
                  \E prefix \in {"PH:"} \cup Range(SPECIAL_SPLIT_MARKERS) :
                      StartsWith(Upper(current[idx]), prefix)})

\* lines 286-293: 1-based index of the first segment after the first that
\* starts with "PH:" or a special marker; 0 for None
split_index(current) ==
    LET first(hits) == IF hits = {} THEN 0 ELSE Min(hits)
    IN  first({idx \in 2..Len(current) :
                  \E prefix \in {"PH:"} \cup Range(SPECIAL_SPLIT_MARKERS) :
                      StartsWith(Upper(current[idx]), prefix)})

\* lines 294-301
resplit(st, event_x0) ==
    LET reopen(flushed, trailing) ==
            [flushed EXCEPT !.current_segments = trailing,
                            !.pending_new_event = FALSE,
                            !.current_event_x0 = IF event_x0 # <<>> THEN event_x0 ELSE @]
        split(idx) ==
            IF idx = 0 THEN st
            ELSE reopen(flush_current([st EXCEPT !.current_segments = SubSeq(@, 1, idx - 1)]),
                        SubSeq(st.current_segments, idx, Len(st.current_segments)))
    IN  split(split_index(st.current_segments))

\* lines 303-307
merge_x0(st, event_x0) ==
    IF event_x0 = <<>> THEN st
    ELSE IF st.current_event_x0 = <<>> THEN [st EXCEPT !.current_event_x0 = event_x0]
    ELSE [st EXCEPT !.current_event_x0 =
              <<IF @[1] <= event_x0[1] THEN @[1] ELSE event_x0[1]>>]

\* lines 272-276
flush_if_forced(st, forced_new) ==
    IF forced_new THEN seed_pending_locations(flush_current(st)) ELSE st

\* extend_current without lines 281-283
extend_current_no_seed(st, segments) ==
    LET append(s3) == [s3 EXCEPT !.current_segments = @ \o segments]
    IN  append(IF st.pending_new_event /\ st.current_segments = <<>>
               THEN [st EXCEPT !.pending_new_event = FALSE]
               ELSE st)

\* lines 278-285
extend_current(st, segments) ==
    LET seed(s2) == IF s2.current_segments = <<>> THEN seed_pending_locations(s2) ELSE s2
        append(s3) == [s3 EXCEPT !.current_segments = @ \o segments]
    IN  append(seed(IF st.pending_new_event /\ st.current_segments = <<>>
                    THEN [st EXCEPT !.pending_new_event = FALSE]
                    ELSE st))

\* lines 234-307: a line without time-column tokens
text_line(st, segments, event_x0, bold) ==
    LET decide(is_all_person, is_all_location) ==
            IF is_all_location /\ st.current_segments # <<>>
            THEN keep_first_x0([st EXCEPT !.current_segments = @ \o segments], event_x0)
            ELSE IF is_all_person /\ st.current_segments # <<>>
            THEN [st EXCEPT !.current_segments = @ \o segments]
            ELSE IF is_all_location /\ st.current_segments = <<>>
            THEN keep_first_x0([st EXCEPT !.pending_location_segments = @ \o segments],
                               event_x0)
            ELSE merge_x0(
                     resplit(
                         extend_current(
                             flush_if_forced(st,
                                 forced_new_event(st, segments, event_x0, bold,
                                                  is_all_person)),
                             segments),
                         event_x0),
                     event_x0)
    IN  IF segments = <<>> THEN st
        ELSE decide(all_person(segments), all_location(segments))

\* lines 196-307: one iteration of the loop, for a line that does not end
\* the region
merge_line(st, line) ==
    LET split(segments, event_x0) ==
            IF time_words(line) # <<>> THEN time_line(st, segments, event_x0)
            ELSE text_line(st, segments, event_x0, first_words_bold(event_words(line)))
    IN  IF Strip(line.text) = "" THEN st
        ELSE split(split_event_text(Strip(Join(WordTexts(event_words(line)), " "))),
                   min_x0(event_words(line)))

\* attach_pending_locations with events[0] in place of events[-1] at line 313
attach_to_first_event(st) ==
    IF st.pending_location_segments = <<>> THEN st
    ELSE IF st.current_segments # <<>>
    THEN [st EXCEPT !.current_segments = @ \o st.pending_location_segments,
                    !.pending_location_segments = <<>>]
    ELSE IF st.events # <<>>
    THEN [st EXCEPT !.events[1] = @ \o st.pending_location_segments,
                    !.pending_location_segments = <<>>]
    ELSE [st EXCEPT !.pending_location_segments = <<>>]

\* lines 309-314: the locations still held after the loop
attach_pending_locations(st) ==
    IF st.pending_location_segments = <<>> THEN st
    ELSE IF st.current_segments # <<>>
    THEN [st EXCEPT !.current_segments = @ \o st.pending_location_segments,
                    !.pending_location_segments = <<>>]
    ELSE IF st.events # <<>>
    THEN [st EXCEPT !.events[Len(st.events)] = @ \o st.pending_location_segments,
                    !.pending_location_segments = <<>>]
    ELSE [st EXCEPT !.pending_location_segments = <<>>]

\* lines 309-317: after the loop
merge_finish(st) == flush_current(attach_pending_locations(st))

\* merge_events(lines, start_index) as a whole; start is 1-based
RECURSIVE merge_loop(_, _, _)
merge_loop(st, lines, n) ==
    IF n > Len(lines) THEN st
    ELSE IF is_region_end(lines[n]) THEN st
    ELSE merge_loop(merge_line(st, lines[n]), lines, n + 1)

merge_events(lines, start) == merge_finish(merge_loop(merge_start, lines, start)).events

(***************************************************************************)
(* State.                                                                  *)
(***************************************************************************)
VARIABLES
    pc,                         \* position of extract_events / merge_events
    page_no,                    \* pages of the document fetched so far
    words,                      \* page.extract_words(...) of the current page
    lines,                      \* build_lines(words); the argument of merge_events
    date_obj,                   \* extract_date(lines), <<>> for None
    start_index,                \* the start_index argument of merge_events, 1-based
    i,                          \* 1-based index of the line the loop is at
    events,
    current_segments,
    pending_new_event,
    current_event_x0,
    pending_location_segments,
    yield_idx,                  \* 1-based index of the next event to format
    records,                    \* the records yielded for the current page
    total,                      \* number of records yielded so far
    pages_started,              \* pages for which merge_events was called
    cl_segment,                 \* classifier: the segment under test
    cl_result,                  \* classifier: <<>> or <<[location, person]>>
    fmt_segments,               \* formatter: the event under test
    fmt_first,                  \* formatter: <<>> or <<output of the first pass>>
    fmt_second                  \* formatter: <<>> or <<output of the second pass>>

merge_vars ==
    <<events, current_segments, pending_new_event, current_event_x0,
      pending_location_segments>>
page_vars == <<words, lines, date_obj, start_index, i, yield_idx, records>>
count_vars == <<page_no, total, pages_started>>
classifier_vars == <<cl_segment, cl_result>>
formatter_vars == <<fmt_segments, fmt_first, fmt_second>>
vars == <<pc, merge_vars, page_vars, count_vars, classifier_vars, formatter_vars>>

MergeState ==
    [events |-> events,
     current_segments |-> current_segments,
     pending_new_event |-> pending_new_event,
     current_event_x0 |-> current_event_x0,
     pending_location_segments |-> pending_location_segments]

SetMergeState(st) ==
    /\ events' = st.events
    /\ current_segments' = st.current_segments
    /\ pending_new_event' = st.pending_new_event
    /\ current_event_x0' = st.current_event_x0
    /\ pending_location_segments' = st.pending_location_segments

\* the locals of extract_events for one page
SetPage(page_words, page_lines, date, start) ==
    /\ words' = page_words
    /\ lines' = page_lines
    /\ date_obj' = date
    /\ start_index' = start
    /\ i' = start
    /\ yield_idx' = 1
    /\ records' = <<>>

\* the locals of merge_events as lines 181-185 initialise them
MergeIdle ==
    /\ events = <<>>
    /\ current_segments = <<>>
    /\ pending_new_event = TRUE
    /\ current_event_x0 = <<>>
    /\ pending_location_segments = <<>>

(***************************************************************************)
(* Inputs.                                                                 *)
(***************************************************************************)
MaxLines == 3
MaxPages == 2
MaxBodyLines == 2

W(text, x0, fontname) == [text |-> text, x0 |-> x0, top |-> 0, fontname |-> fontname]
T(text) == W(text, 50, "Arial")
E(text, x0) == W(text, x0, "Arial")

SeqsUpTo(S, n) == UNION {[1..k -> S] : k \in 0..n}

\* the word lists of the lines merge_events is run on
MERGE_LINE_WORDS ==
    { <<T("9:00"), E("Staff", 80), E("Meeting", 120)>>,
      <<T("9:00")>>,
      <<T("10"), E("Jane", 80), E("Smith", 110)>>,
      <<E("ZOOM", 80)>>,
      <<E("Budget", 80), E("notes", 120)>>,
      <<E("memo", 106), E("PH:", 140), E("Bob", 170)>>,
      <<E("5", 300)>>,
      <<E("5", 200)>>,
      <<E("Tuesday", 80)>>,
      <<E("Due", 80), E("May", 110), E("5,", 140), E("2023", 160)>> }

MERGE_LINES == {build_lines(ws)[1] : ws \in MERGE_LINE_WORDS}
START_INDEXES == {1, 2}

\* the word lists of the body lines of a page
BODY_LINE_WORDS ==
    { <<T("9:00"), E("Staff", 80), E("Meeting", 120)>>,
      <<T("1:30")>>,
      <<E("ZOOM", 80)>>,
      <<E("memo", 80), E("PH:", 120), E("Bob", 150)>>,
      <<E("7", 300)>> }

DATE_LINE == <<E("September", 80), E("5,", 140), E("2023", 160)>>
TITLE_DATE_LINE ==
    <<E("Calendar:", 80), E("February", 140), E("29,", 190), E("2024", 210),
      E("(draft)", 240)>>
BAD_DATE_LINE == <<E("February", 80), E("30,", 140), E("2023", 160)>>
DAY_LINE == <<E("Tuesday", 80)>>
HEADER_ROW == <<E("Time", 40), E("Event", 80)>>

\* the lines above the schedule region of the pages that hold one
FULL_HEADERS == {<<DATE_LINE, DAY_LINE, HEADER_ROW>>, <<DAY_LINE, TITLE_DATE_LINE, HEADER_ROW>>}

\* the lines of the pages without a schedule region
OTHER_PAGES ==
    { <<DATE_LINE, DAY_LINE>>,
      <<DAY_LINE, HEADER_ROW, <<E("ZOOM", 80)>>>>,
      <<BAD_DATE_LINE, DAY_LINE, HEADER_ROW, <<E("ZOOM", 80)>>>>,
      <<DATE_LINE, HEADER_ROW, <<E("ZOOM", 80)>>>> }

\* the words of a page whose k-th line holds line_words[k]: the lines are 20
\* apart, the words of a line at most 2 apart, and each line is listed right
\* to left
RECURSIVE PageWords(_, _)
PageWords(line_words, n) ==
    IF n > Len(line_words) THEN <<>>
    ELSE [j \in 1..Len(line_words[n]) |->
             [line_words[n][Len(line_words[n]) + 1 - j] EXCEPT !.top = 20 * n + 2 * (j % 2)]]
         \o PageWords(line_words, n + 1)

PAGES ==
    {<<>>}
    \cup {PageWords(header \o body, 1) :
             header \in FULL_HEADERS, body \in SeqsUpTo(BODY_LINE_WORDS, MaxBodyLines)}
    \cup {PageWords(page, 1) : page \in OTHER_PAGES}

(***************************************************************************)
(* merge_events, one loop iteration at a time.                             *)
(***************************************************************************)
\* lines 195-307: the loop body for the line at i, which does not end the region
MergeLine ==
    /\ pc = "merge"
    /\ i <= Len(lines)
    /\ ~is_region_end(lines[i])
    /\ SetMergeState(merge_line(MergeState, lines[i]))
    /\ i' = i + 1
    /\ UNCHANGED <<pc, words, lines, date_obj, start_index, yield_idx, records, count_vars,
                   classifier_vars, formatter_vars>>

\* lines 199-205: break at a line that ends the region
MergeBreak ==
    /\ pc = "merge"
    /\ i <= Len(lines)
    /\ is_region_end(lines[i])
    /\ pc' = "after_loop"
    /\ UNCHANGED <<merge_vars, page_vars, count_vars, classifier_vars, formatter_vars>>

\* lines 309-317: after the loop (left by break or by exhaustion), return events
MergeEnd ==
    /\ \/ pc = "after_loop"
       \/ pc = "merge" /\ i > Len(lines)
    /\ SetMergeState(merge_finish(MergeState))
    /\ pc' = "returned"
    /\ UNCHANGED <<page_vars, count_vars, classifier_vars, formatter_vars>>

(***************************************************************************)
(* extract_events.                                                         *)
(***************************************************************************)
\* page_qualifies without the check of lines 446-447
page_qualifies_no_day_check(page_words, page_lines) ==
    /\ page_words # <<>>
    /\ extract_date(page_lines) # <<>>

\* lines 436-447: the page is not skipped; page_lines is build_lines(page_words)
page_qualifies(page_words, page_lines) ==
    /\ page_words # <<>>
    /\ extract_date(page_lines) # <<>>
    /\ find_day_line_index(page_lines) # 0

\* line 449: 1-based index of the first line of the schedule region
schedule_start(page_lines) == find_day_line_index(page_lines) + 2

\* lines 435-447, a page that is skipped
SkipPage ==
    /\ pc = "page"
    /\ page_no < MaxPages
    /\ \E page \in PAGES :
          LET skip(built) ==
                  /\ ~page_qualifies(page, built)
                  /\ SetPage(page, built, <<>>, 1)
          IN  skip(build_lines(page))
    /\ page_no' = page_no + 1
    /\ SetMergeState(merge_start)
    /\ pc' = "page_done"
    /\ UNCHANGED <<total, pages_started, classifier_vars, formatter_vars>>

\* lines 435-450, a page that reaches merge_events
StartPage ==
    /\ pc = "page"
    /\ page_no < MaxPages
    /\ \E page \in PAGES :
          LET start(built) ==
                  /\ page_qualifies(page, built)
                  /\ SetPage(page, built, extract_date(built), schedule_start(built))
          IN  start(build_lines(page))
    /\ page_no' = page_no + 1
    /\ SetMergeState(merge_start)
    /\ pages_started' = pages_started + 1
    /\ pc' = "merge"
    /\ UNCHANGED <<total, classifier_vars, formatter_vars>>

\* Record with the first two fields of line 458 exchanged
Record_exchanged(date, event_name, meeting_place, person) ==
    [date |-> event_name, event_name |-> date, meeting_place |-> meeting_place,
     person |-> person]

\* lines 454, 458: a yielded tuple
Record(date, event_name, meeting_place, person) ==
    [date |-> date, event_name |-> event_name, meeting_place |-> meeting_place,
     person |-> person]

\* YieldPlaceholder without the yield of line 453
YieldPlaceholder_silent ==
    /\ pc = "returned"
    /\ events = <<>>
    /\ pc' = "page_done"
    /\ UNCHANGED <<merge_vars, page_vars, count_vars, classifier_vars, formatter_vars>>

\* lines 452-454
YieldPlaceholder ==
    /\ pc = "returned"
    /\ events = <<>>
    /\ records' = Append(records, Record(isoformat(date_obj[1]), "", "", ""))
    /\ total' = total + 1
    /\ pc' = "page_done"
    /\ UNCHANGED <<merge_vars, words, lines, date_obj, start_index, i, yield_idx, page_no,
                   pages_started, classifier_vars, formatter_vars>>

\* lines 456-458: one iteration; an IndexError of the formatter ends the generator
YieldRecord ==
    /\ pc = "returned"
    /\ yield_idx <= Len(events)
    /\ LET yield(out) ==
               IF out.raised
               THEN /\ pc' = "raised"
                    /\ UNCHANGED <<records, total, yield_idx>>
               ELSE /\ records' = Append(records,
                            Record(isoformat(date_obj[1]), out.event_name,
                                   out.meeting_place, out.person))
                    /\ total' = total + 1
                    /\ yield_idx' = yield_idx + 1
                    /\ pc' = IF yield_idx = Len(events) THEN "page_done" ELSE "returned"
       IN  yield(format_event_segments(events[yield_idx]))
    /\ UNCHANGED <<merge_vars, words, lines, date_obj, start_index, i, page_no, pages_started,
                   classifier_vars, formatter_vars>>

\* line 435: back to the head of the loop over the pages; the locals of the
\* page just handled are dead
NextIteration ==
    /\ pc = "page_done"
    /\ pc' = "page"
    /\ SetPage(<<>>, <<>>, <<>>, 1)
    /\ SetMergeState(merge_start)
    /\ UNCHANGED <<count_vars, classifier_vars, formatter_vars>>

\* line 435: no page is left
EndDocument ==
    /\ pc = "page"
    /\ pc' = "done"
    /\ UNCHANGED <<merge_vars, page_vars, count_vars, classifier_vars, formatter_vars>>

ClassifierIdle == cl_segment = "" /\ cl_result = <<>>
FormatterIdle == fmt_segments = <<>> /\ fmt_first = <<>> /\ fmt_second = <<>>
DriverIdle ==
    /\ page_no = 0
    /\ words = <<>>
    /\ date_obj = <<>>
    /\ yield_idx = 1
    /\ records = <<>>
    /\ total = 0
    /\ pages_started = 0

Init ==
    /\ pc = "page"
    /\ lines = <<>>
    /\ start_index = 1
    /\ i = 1
    /\ MergeIdle
    /\ DriverIdle
    /\ ClassifierIdle
    /\ FormatterIdle

Next ==
    \/ SkipPage
    \/ StartPage
    \/ MergeLine
    \/ MergeBreak
    \/ MergeEnd
    \/ YieldPlaceholder
    \/ YieldRecord
    \/ NextIteration
    \/ EndDocument

Spec == Init /\ [][Next]_vars

\* merge_events alone, on any lines and start index
InitMerge ==
    /\ pc = "merge"
    /\ lines \in SeqsUpTo(MERGE_LINES, MaxLines)
    /\ start_index \in START_INDEXES
    /\ i = start_index
    /\ MergeIdle
    /\ DriverIdle
    /\ ClassifierIdle
    /\ FormatterIdle

NextMerge ==
    \/ MergeLine
    \/ MergeBreak
    \/ MergeEnd

SpecMerge == InitMerge /\ [][NextMerge]_vars

(***************************************************************************)
(* The classifiers, on the segments that can be split from a line.         *)
(***************************************************************************)
MaxWords == 2

SEGMENT_WORDS == {"Zoom,", "Jane", "Smith", "Room", "PH:", "MTG:", "5", "Teleconference"}

\* the segments of at most MaxWords words
CLASSIFIER_SEGMENTS == {Join(ws, " ") : ws \in SeqsUpTo(SEGMENT_WORDS, MaxWords) \ {<<>>}}

\* lines 328-363: both classifiers on the segment
Classify ==
    /\ pc = "classify"
    /\ cl_result' = <<[location |-> is_location_segment(cl_segment),
                       person |-> is_person_segment(cl_segment)]>>
    /\ pc' = "classified"
    /\ UNCHANGED <<cl_segment, merge_vars, page_vars, count_vars, formatter_vars>>

InitClassify ==
    /\ pc = "classify"
    /\ cl_segment \in CLASSIFIER_SEGMENTS
    /\ cl_result = <<>>
    /\ lines = <<>>
    /\ start_index = 1
    /\ i = 1
    /\ MergeIdle
    /\ DriverIdle
    /\ FormatterIdle

NextClassify == Classify

SpecClassify == InitClassify /\ [][NextClassify]_vars

(***************************************************************************)
(* format_event_segments, on events as merge_events returns them: their    *)
(* segments are stripped, non-empty and hold no ";".                       *)
(***************************************************************************)
MaxSegments == 3

FORMAT_SEGMENTS ==
    {"Call", "Bob", "Al", "PH: Bob", "Room 5 Doe, Al", "MTG: Budget", "ZOOM",
     "PH: INTERVIEW TV"}

\* the pieces joined by "; " into a field of a formatter output
Pieces(field) == SelectSeq(StripAll(SplitOn(field, ";")), LAMBDA q : q # "")

\* the list made of a formatter output: event_name, then the pieces of
\* meeting_place, then the pieces of person
Refeed(out) ==
    <<out.event_name>>
    \o Pieces(out.meeting_place)
    \o Pieces(out.person)

\* lines 367-430 on the event
FormatFirst ==
    /\ pc = "format"
    /\ fmt_first' = <<format_event_segments(fmt_segments)>>
    /\ pc' = "formatted"
    /\ UNCHANGED <<fmt_segments, fmt_second, merge_vars, page_vars, count_vars,
                   classifier_vars>>

\* lines 367-430 on the list made of the first output
FormatSecond ==
    /\ pc = "formatted"
    /\ ~fmt_first[1].raised
    /\ fmt_second' = <<format_event_segments(Refeed(fmt_first[1]))>>
    /\ pc' = "reformatted"
    /\ UNCHANGED <<fmt_segments, fmt_first, merge_vars, page_vars, count_vars,
                   classifier_vars>>

InitFormat ==
    /\ pc = "format"
    /\ fmt_segments \in SeqsUpTo(FORMAT_SEGMENTS, MaxSegments) \ {<<>>}
    /\ fmt_first = <<>>
    /\ fmt_second = <<>>
    /\ lines = <<>>
    /\ start_index = 1
    /\ i = 1
    /\ MergeIdle
    /\ DriverIdle
    /\ ClassifierIdle

NextFormat ==
    \/ FormatFirst
    \/ FormatSecond

SpecFormat == InitFormat /\ [][NextFormat]_vars

(***************************************************************************)
(* merge_events on lines without time-column tokens below an opening line. *)
(***************************************************************************)
B(text, x0) == W(text, x0, "Arial-BoldMT")

\* the word lists of the lines
TEXT_LINE_WORDS ==
    { <<T("9:00"), E("Staff", 80), E("Meeting", 120)>>,
      <<E("Budget", 105), E("notes", 140)>>,
      <<E("draft", 106), E("list", 140)>>,
      <<E("memo", 100), E("PH:", 140), E("Bob", 170)>>,
      <<B("Travel", 80), E("day", 120)>>,
      <<B("ZOOM;", 80), E("notes", 120)>>,
      <<E("Update", 80), E("list", 120)>>,
      <<E("5", 300)>> }

TEXT_LINES == {build_lines(ws)[1] : ws \in TEXT_LINE_WORDS}

InitMergeText ==
    /\ pc = "merge"
    /\ lines \in SeqsUpTo(TEXT_LINES, MaxLines)
    /\ start_index = 1
    /\ i = 1
    /\ MergeIdle
    /\ DriverIdle
    /\ ClassifierIdle
    /\ FormatterIdle

SpecMergeText == InitMergeText /\ [][NextMerge]_vars

(***************************************************************************)
(* merge_events on lines of locations above and below the opening lines.   *)
(***************************************************************************)
\* the word lists of the lines
HELD_LINE_WORDS ==
    { <<E("ZOOM", 80)>>,
      <<E("Juneau", 90)>>,
      <<T("9:00"), E("Staff", 80), E("Meeting", 120)>>,
      <<T("9:00")>>,
      <<E("Budget", 80), E("notes", 120)>>,
      <<E("PH:", 80), E("Bob", 110)>>,
      <<E("Tuesday", 80)>> }

HELD_LINES == {build_lines(ws)[1] : ws \in HELD_LINE_WORDS}

InitMergeHeld ==
    /\ pc = "merge"
    /\ lines \in SeqsUpTo(HELD_LINES, MaxLines)
    /\ start_index = 1
    /\ i = 1
    /\ MergeIdle
    /\ DriverIdle
    /\ ClassifierIdle
    /\ FormatterIdle

SpecMergeHeld == InitMergeHeld /\ [][NextMerge]_vars

(***************************************************************************)
(* should_force_new_event, on segments of at most MaxWords words.           *)
(***************************************************************************)
FORCE_WORDS == {"MTG:", "Conference", "Hearing", "Budget", "notes", "Juneau", "9:30", "Jane"}

\* the segments of at most MaxWords words
FORCE_SEGMENTS == {Join(ws, " ") : ws \in SeqsUpTo(FORCE_WORDS, MaxWords) \ {<<>>}}

\* lines 138-167 on the segment; current_segments is empty
ShouldForce ==
    /\ pc = "force"
    /\ cl_result' = <<[forced |-> should_force_new_event(cl_segment, current_segments)]>>
    /\ pc' = "forced"
    /\ UNCHANGED <<cl_segment, merge_vars, page_vars, count_vars, formatter_vars>>

InitForce ==
    /\ pc = "force"
    /\ cl_segment \in FORCE_SEGMENTS
    /\ cl_result = <<>>
    /\ lines = <<>>
    /\ start_index = 1
    /\ i = 1
    /\ MergeIdle
    /\ DriverIdle
    /\ FormatterIdle

NextForce == ShouldForce

SpecForce == InitForce /\ [][NextForce]_vars

(***************************************************************************)
(* Properties.                                                             *)
(***************************************************************************)
IsPrefix(s, t) == Len(s) <= Len(t) /\ SubSeq(t, 1, Len(s)) = s

\* a line holding a long-form date that parses
HasDateLine(page_lines) ==
    \E k \in 1..Len(page_lines) :
        /\ DateSearch(page_lines[k].text) # ""
        /\ ParseLongDate(DateSearch(page_lines[k].text)) # <<>>

\* a line that is exactly a day name
HasDayLine(page_lines) ==
    \E k \in 1..Len(page_lines) : Upper(Strip(page_lines[k].text)) \in DAY_NAMES_UPPER

\* the page has tokens, a date line and a day-name line
HasHeader(page_words) ==
    LET both(page_lines) == HasDateLine(page_lines) /\ HasDayLine(page_lines)
    IN  page_words # <<>> /\ both(build_lines(page_words))

\* the date of the page in the form the records carry
PageDate == isoformat(extract_date(lines)[1])

\* C1: every record yielded carries the date extracted from its page; its
\* event_name is empty only if it is the single placeholder record of a page
\* whose merge_events returned no event, and a record made from an event has
\* a non-empty event_name.
C1_RecordsCarryPageDate ==
    \A k \in 1..Len(records) :
        /\ records[k].date = PageDate
        /\ records[k].event_name = "" => events = <<>> /\ Len(records) = 1
        /\ events # <<>> => records[k].event_name # ""

\* C1: the second page is dated February 29, 2024 and has yielded the records
\* of its two events
C1_Witness ==
    /\ pc = "page_done"
    /\ page_no = 2
    /\ Len(events) = 2
    /\ Len(records) = 2
    /\ records[1].date = "2024-02-29"
    /\ records[2].event_name # ""

\* C2: once a page with tokens, a date line and a day-name line is done, it
\* has yielded exactly the placeholder record if merge_events returned no
\* event, and otherwise exactly one record per event, in the order of events.
C2_OneRecordPerEvent ==
    LET made(k, out) ==
            /\ ~out.raised
            /\ records[k] = [date |-> PageDate, event_name |-> out.event_name,
                             meeting_place |-> out.meeting_place, person |-> out.person]
    IN  pc = "page_done" /\ HasHeader(words) =>
            IF events = <<>>
            THEN records = <<[date |-> PageDate, event_name |-> "", meeting_place |-> "",
                              person |-> ""]>>
            ELSE /\ Len(records) = Len(events)
                 /\ \A k \in 1..Len(events) : made(k, format_event_segments(events[k]))

\* C2: a page whose header row is its last line has yielded the placeholder
C2_Witness ==
    /\ pc = "page_done"
    /\ HasHeader(words)
    /\ start_index = Len(lines) + 1
    /\ records = <<[date |-> "2023-09-05", event_name |-> "", meeting_place |-> "",
                    person |-> ""]>>

\* C3: a page without tokens, without a parseable date line or without a
\* day-name line adds no record and reaches the end of its loop iteration,
\* from where the loop goes on to the next page; while no page has reached
\* merge_events no record has been yielded.
C3_SkippedPagesYieldNothing ==
    [][ /\ (page_no' = page_no + 1 /\ ~HasHeader(words')) =>
               /\ pc' = "page_done"
               /\ records' = <<>>
               /\ total' = total
        /\ (pc = "page_done" /\ ~HasHeader(words)) =>
               /\ pc' = "page"
               /\ total' = total
        /\ pages_started' = 0 => total' = 0 ]_vars

\* C3: the first page was skipped and the second page has yielded the only
\* records of the document
C3_Witness ==
    /\ pc = "page_done"
    /\ page_no = 2
    /\ pages_started = 1
    /\ records # <<>>
    /\ total = Len(records)

\* C4: at every step of merge_events every event of the list is non-empty,
\* the list only grows at its end, and an event keeps its place in it.
C4_EventsNonEmptyInOrder ==
    [][ /\ \A k \in 1..Len(events') : events'[k] # <<>>
        /\ Len(events') >= Len(events)
        /\ \A k \in 1..Len(events) : IsPrefix(events[k], events'[k]) ]_vars

\* C4: merge_events has returned two different events
C4_Witness ==
    /\ pc = "returned"
    /\ Len(events) >= 2
    /\ events[1] # events[2]

\* C5 as claimed: no step of merge_events changes an event that is in the list.
C5_FlushedEventsNeverChange ==
    [][ \A k \in 1..Len(events) : k <= Len(events') /\ events'[k] = events[k] ]_vars

\* C5 as amended: no line step changes an event that is in the list; the
\* end-of-region step leaves every event but the last as it is, and the last
\* either as it is or with the held location segments appended to it.
C5_FlushedEventsChangeOnlyAtEnd ==
    [][ \A k \in 1..Len(events) :
            /\ k <= Len(events')
            /\ IF pc' = "returned" /\ k = Len(events)
               THEN events'[k] \in {events[k], events[k] \o pending_location_segments}
               ELSE events'[k] = events[k] ]_vars

\* C5: the event flushed at the time-only second line was returned with the
\* location of the third line appended
C5_Witness ==
    /\ pc = "returned"
    /\ Len(lines) = 3
    /\ start_index = 1
    /\ lines[2].text = "9:00"
    /\ lines[3].text = "ZOOM"
    /\ events = <<<<"Staff Meeting", "ZOOM">>>>

\* the line is a day name, holds a long-form date, or is all digits right of 200
StopsSegmentation(line) ==
    \/ Upper(line.text) \in DAY_NAMES_UPPER
    \/ DateSearch(line.text) # ""
    \/ DigitsOnly(line.text) /\ line.x0 > 200

\* the index of the first line from `from` on that stops the segmentation
FirstStop(from) ==
    LET first(stops) == IF stops = {} THEN Max({from, Len(lines) + 1}) ELSE Min(stops)
    IN  first({k \in from..Len(lines) : StopsSegmentation(lines[k])})

\* C6: the loop passes no line that is a day name, holds a long-form date or
\* is all digits with x0 > 200, and it stops at no other line: it ends at the
\* first such line from start_index on, and the events returned are those of
\* the lines above that line alone.
C6_StopsAtFirstRegionEnd ==
    /\ pc = "merge" => i <= FirstStop(start_index)
    /\ pc \in {"after_loop", "returned"} => i = FirstStop(start_index)
    /\ pc = "returned" =>
           events = merge_events(SubSeq(lines, 1, Min({i - 1, Len(lines)})), start_index)

\* C6: the digits at x0 = 200 of the first line were taken as an event and
\* the digits at x0 = 300 of the second line ended the region above a third line
C6_Witness ==
    /\ pc = "returned"
    /\ Len(lines) = 3
    /\ start_index = 1
    /\ i = 2
    /\ DigitsOnly(lines[1].text) /\ lines[1].x0 = 200
    /\ DigitsOnly(lines[2].text) /\ lines[2].x0 = 300
    /\ ~StopsSegmentation(lines[3])
    /\ events = <<<<lines[1].text>>>>

\* C7: no segment is both a location segment and a person segment.
C7_LocationAndPersonExclusive ==
    cl_result # <<>> => ~(cl_result[1].location /\ cl_result[1].person)

\* C7: a location segment with the comma shape of a person name
C7_Witness ==
    /\ cl_result # <<>>
    /\ cl_result[1].location
    /\ ~cl_result[1].person
    /\ CommaNameShape(cl_segment)

PhSegment(segment) == StartsWith(Upper(segment), "PH:")

\* C8: event_name is segment 0 followed by the later "PH:" segments, in
\* order and separated by single spaces, and every piece of meeting_place and
\* person is taken from a later segment that is not a "PH:" segment.
C8_EventNameIsFirstPlusPhone ==
    LET later == {k \in 2..Len(fmt_segments) : ~PhSegment(fmt_segments[k])}
        holds(out) ==
            /\ ~out.raised
            /\ out.event_name =
                   Join(<<fmt_segments[1]>> \o SelectSeq(Tail(fmt_segments), PhSegment), " ")
            /\ \A piece \in Range(Pieces(out.meeting_place) \o Pieces(out.person)) :
                   \E k \in later : Contains(fmt_segments[k], piece)
    IN  fmt_first # <<>> => holds(fmt_first[1])

\* C8: segment 0 is a person segment, a "PH:" segment follows a location
C8_Witness ==
    /\ fmt_segments = <<"Bob", "ZOOM", "PH: Bob">>
    /\ fmt_first # <<>>
    /\ is_person_segment(fmt_segments[1])
    /\ fmt_first[1].event_name = "Bob PH: Bob"
    /\ fmt_first[1].meeting_place = "ZOOM"

\* the number of times the piece occurs in the output
Occurrences(piece, out) ==
    Cardinality({k \in 1..Len(Refeed(out)) : Refeed(out)[k] = piece})

\* C9: formatting the list made of an output returns that output, and no
\* piece occurs in it more often than in the first output.
C9_FormattingIsIdempotent ==
    fmt_second # <<>> =>
        /\ fmt_second[1] = fmt_first[1]
        /\ \A piece \in Range(Refeed(fmt_second[1])) :
               Occurrences(piece, fmt_second[1]) <= Occurrences(piece, fmt_first[1])

\* C10: a line with time-column tokens and no event-text segment leaves
\* pending_new_event true and no event open; at every line boundary
\* pending_new_event implies that current_segments is empty.
C10_PendingMeansNoOpenEvent ==
    [][ /\ ( /\ pc = "merge"
             /\ i' = i + 1
             /\ time_words(lines[i]) # <<>>
             /\ event_words(lines[i]) = <<>> ) =>
                 pending_new_event' /\ current_segments' = <<>>
        /\ (pc' = "merge" /\ pending_new_event') => current_segments' = <<>> ]_vars

\* the segments of the event text of a line
SegmentsOf(line) == split_event_text(Strip(Join(WordTexts(event_words(line)), " ")))

AllPersons(segs) == \A k \in 1..Len(segs) : is_person_segment(segs[k])

AllLocations(segs) == \A k \in 1..Len(segs) : is_location_segment(segs[k])

\* C11: a line with time-column tokens whose segments are all person segments
\* is appended to an open event with content and nothing is flushed; every
\* other line with time-column tokens flushes the open event, if any, and
\* starts the new event with the held location segments followed by the
\* segments of the line.
C11_TimeLineAppendsPersonsOrStartsEvent ==
    [][ (pc = "merge" /\ i' = i + 1 /\ time_words(lines[i]) # <<>>) =>
            LET step(segs) ==
                    IF /\ segs # <<>>
                       /\ ~pending_new_event
                       /\ current_segments # <<>>
                       /\ AllPersons(segs)
                    THEN /\ events' = events
                         /\ current_segments' = current_segments \o segs
                    ELSE /\ events' = IF current_segments # <<>>
                                      THEN Append(events, current_segments)
                                      ELSE events
                         /\ current_segments' = pending_location_segments \o segs
                         /\ pending_location_segments' = <<>>
            IN  step(SegmentsOf(lines[i])) ]_vars

\* C11: the person named on the second line, which has a time-column token,
\* was appended to the event opened by the first line
C11_Witness ==
    /\ pc = "merge"
    /\ i = 3
    /\ time_words(lines[2]) # <<>>
    /\ current_segments = <<"Staff Meeting", "Jane Smith">>
    /\ events = <<>>

\* one of the rules of lines 139-158 returns before the keyword rule
EarlierRuleDecides(segment) ==
    LET rule(cleaned, upper) ==
            \/ cleaned = ""
            \/ StartsWith(upper, "PH:")
            \/ Contains(upper, "TELECONFERENCE")
            \/ is_location_segment(segment)
            \/ NameShape(cleaned)
            \/ ContainsAny(upper, PERSON_HINTS)
            \/ ClockShape(cleaned)
            \/ AmPmShape(upper)
            \/ \E prefix \in FORCED_EVENT_PREFIXES : StartsWith(upper, prefix)
    IN  rule(Strip(segment), Upper(Strip(segment)))

\* C12: for a segment that no earlier rule decides and that contains a
\* meeting-type keyword, should_force_new_event is true when the segment has no
\* location hint, and with a location hint it is true exactly when the segment
\* is title-like.
C12_KeywordRuleForcesTitles ==
    ( /\ cl_result # <<>>
      /\ ~EarlierRuleDecides(cl_segment)
      /\ ContainsAny(Upper(Strip(cl_segment)), MEETING_TYPE_KEYWORDS) ) =>
        cl_result[1].forced =
            IF ~ContainsAny(Upper(Strip(cl_segment)), LOCATION_HINTS)
            THEN TRUE
            ELSE TitleLike(Strip(cl_segment))

\* the segment starts with "PH:" or with a special marker
SplitMarker(seg) ==
    \/ StartsWith(Upper(seg), "PH:")
    \/ StartsWith(Upper(seg), "CHIEF'S CONFERENCE")
    \/ StartsWith(Upper(seg), "CHIEFS CONFERENCE")

\* the first index after the first of a segment that starts with a marker, or 0
FirstMarker(cur) ==
    IF \E k \in 2..Len(cur) : SplitMarker(cur[k])
    THEN Min({k \in 2..Len(cur) : SplitMarker(cur[k])})
    ELSE 0

\* the finalized events and the open event after the re-split scan of cur
AfterResplit(evs, cur) ==
    LET at(k) == IF k = 0 THEN <<evs, cur>>
                 ELSE <<Append(evs, SubSeq(cur, 1, k - 1)), SubSeq(cur, k, Len(cur))>>
    IN  at(FirstMarker(cur))

\* the line has no time-column tokens and its segments are neither all
\* locations nor all persons
MixedTextLine(line) ==
    /\ time_words(line) = <<>>
    /\ SegmentsOf(line) # <<>>
    /\ ~AllPersons(SegmentsOf(line))
    /\ ~AllLocations(SegmentsOf(line))

\* C13: while an event is open, a mixed line without time-column tokens
\* flushes the open event and starts a new one with its segments if its
\* leftmost event-text x exceeds the recorded leftmost position by more than
\* 25, or should_force_new_event holds of its first segment, or one of its
\* first three event-text tokens is bold and its first segment is not a
\* location; otherwise its segments are appended to the open event and nothing
\* is flushed before the re-split scan.
C13_ForcedNewEventDecision ==
    [][ ( /\ pc = "merge"
          /\ i' = i + 1
          /\ MixedTextLine(lines[i])
          /\ current_segments # <<>> ) =>
            LET step(segs, ws) ==
                    <<events', current_segments'>> =
                        IF \/ /\ current_event_x0 # <<>>
                              /\ Min({ws[k].x0 : k \in 1..Len(ws)}) - current_event_x0[1] > 25
                           \/ should_force_new_event(segs[1], current_segments)
                           \/ /\ \E k \in 1..Len(ws) : k <= 3 /\ is_bold_word(ws[k])
                              /\ ~is_location_segment(segs[1])
                        THEN AfterResplit(Append(events, current_segments), segs)
                        ELSE AfterResplit(events, current_segments \o segs)
            IN  step(SegmentsOf(lines[i]), event_words(lines[i])) ]_vars

\* C13: the second line starts exactly 25 to the right of the open event and
\* was appended to it
C13_Witness ==
    /\ pc = "merge"
    /\ i = 3
    /\ MixedTextLine(lines[2])
    /\ lines[1].words[2].x0 = 80
    /\ lines[2].words[1].x0 = 105
    /\ events = <<>>
    /\ current_segments = <<"Staff Meeting", "Budget notes">>
    /\ current_event_x0 = <<80>>

\* C14: after the segments of a line without time-column tokens are appended,
\* if the open event has a segment after its first that starts with "PH:" or a
\* special marker, the segments before the first such one are finalized as
\* one event, which has no such segment after its first, and the segments
\* from it onward become the open event, with pending_new_event false and the
\* leftmost position of the line; otherwise nothing is finalized.
C14_ResplitAtFirstMarker ==
    [][ ( /\ pc = "merge"
          /\ i' = i + 1
          /\ time_words(lines[i]) = <<>>
          /\ SegmentsOf(lines[i]) # <<>>
          /\ ~AllLocations(SegmentsOf(lines[i]))
          /\ ~(AllPersons(SegmentsOf(lines[i])) /\ current_segments # <<>>) ) =>
            LET scan(pre, ws) ==
                    /\ <<events', current_segments'>> =
                           AfterResplit(pre.events, pre.current_segments)
                    /\ FirstMarker(pre.current_segments) # 0 =>
                           /\ FirstMarker(events'[Len(events')]) = 0
                           /\ SplitMarker(current_segments'[1])
                           /\ ~pending_new_event'
                           /\ current_event_x0' = <<Min({ws[k].x0 : k \in 1..Len(ws)})>>
                appended(segs, ws, bold) ==
                    scan(extend_current(
                             flush_if_forced(MergeState,
                                 forced_new_event(MergeState, segs, min_x0(ws), bold,
                                                  all_person(segs))),
                             segs), ws)
            IN  appended(SegmentsOf(lines[i]), event_words(lines[i]),
                         first_words_bold(event_words(lines[i]))) ]_vars

\* C14: the second line was appended to the open event, which was split at
\* the "PH:" segment
C14_Witness ==
    /\ pc = "merge"
    /\ i = 3
    /\ time_words(lines[2]) = <<>>
    /\ events = << <<"Staff Meeting", "memo">> >>
    /\ current_segments = <<"PH: Bob">>
    /\ ~pending_new_event
    /\ current_event_x0 = <<100>>

\* the concatenation of the segment lists
RECURSIVE Flatten(_)
Flatten(evs) == IF evs = <<>> THEN <<>> ELSE Head(evs) \o Flatten(Tail(evs))

\* the line has no time-column tokens, all its segments are locations and no
\* event is open
HeldLine(line) ==
    /\ time_words(line) = <<>>
    /\ SegmentsOf(line) # <<>>
    /\ AllLocations(SegmentsOf(line))
    /\ current_segments = <<>>

RECURSIVE ContributingLines(_, _)
ContributingLines(k, n) ==
    IF n = 0 \/ k = 0 THEN {}
    ELSE IF SegmentsOf(lines[k]) = <<>> THEN ContributingLines(k - 1, n)
    ELSE {k} \cup ContributingLines(k - 1, Max({0, n - Len(SegmentsOf(lines[k]))}))

\* the leftmost event-text position of the line
LineEventX0(line) == Min({w.x0 : w \in Range(event_words(line))})

\* C16: at a line boundary with an event open, current_event_x0 is the least
\* event-text x-position of the lines whose segments are in the open event.
C16_LeftmostIsMinimumOverEventLines ==
    (pc = "merge" /\ current_segments # <<>>) =>
        current_event_x0 =
            <<Min({LineEventX0(lines[k]) :
                       k \in ContributingLines(i - 1, Len(current_segments))})>>

\* the entries left of the later segments of the event, before classification
RestEntries(segments) ==
    SelectSeq(ProcessRest(StripAll(Tail(segments)),
                          [field1 |-> Strip(segments[1]),
                           processed_rest |-> <<>>]).processed_rest,
              LAMBDA q : q # "")

\* the meeting-place list and the person list, before post-processing
MeetingList(segments) == SelectSeq(RestEntries(segments), LAMBDA q : ~is_person_segment(q))

PersonList(segments) == SelectSeq(RestEntries(segments), is_person_segment)

\* event_name starts with "PH:" or "MTG:", the meeting-place list is empty
\* and the person list is not
SwapsRoles(name, meetings, persons) ==
    /\ StartsWith(Upper(name), "PH:") \/ StartsWith(Upper(name), "MTG:")
    /\ meetings = <<>>
    /\ persons # <<>>

\* C17 as stated: if event_name contains "PH: INTERVIEW" and the meeting-place
\* list is not empty, every entry is output in person and meeting_place is '';
\* otherwise, also when event_name contains "PH: INTERVIEW" and the list is
\* empty, if event_name starts with "PH:" or "MTG:" and the meeting-place list
\* is empty but the person list is not, the person entries are output as
\* meeting_place and person is ''.
C17_InterviewThenSwap ==
    LET holds(out, meetings, persons) ==
            IF Contains(Upper(out.event_name), "PH: INTERVIEW") /\ meetings # <<>>
            THEN out.meeting_place = "" /\ out.person = JoinParts(meetings \o persons)
            ELSE SwapsRoles(out.event_name, meetings, persons) =>
                     out.meeting_place = JoinParts(persons) /\ out.person = ""
    IN  (fmt_first # <<>> /\ ~fmt_first[1].raised) =>
            holds(fmt_first[1], MeetingList(fmt_segments), PersonList(fmt_segments))

\* C17: if event_name contains "PH: INTERVIEW", every entry is output in
\* person and meeting_place is '', whether the meeting-place list is empty or
\* not; otherwise, if event_name starts with "PH:" or "MTG:" and the
\* meeting-place list is empty but the person list is not, the person entries
\* are output as meeting_place and person is ''.
C17_InterviewKeepsPersons ==
    LET holds(out, meetings, persons) ==
            IF Contains(Upper(out.event_name), "PH: INTERVIEW")
            THEN out.meeting_place = "" /\ out.person = JoinParts(meetings \o persons)
            ELSE SwapsRoles(out.event_name, meetings, persons) =>
                     out.meeting_place = JoinParts(persons) /\ out.person = ""
    IN  (fmt_first # <<>> /\ ~fmt_first[1].raised) =>
            holds(fmt_first[1], MeetingList(fmt_segments), PersonList(fmt_segments))

\* C17: event_name contains "PH: INTERVIEW" and starts with "PH:", the
\* meeting-place list is empty and the person of the second segment is output
\* in person
C17_Witness ==
    /\ fmt_segments = <<"PH: INTERVIEW TV", "Bob">>
    /\ fmt_first # <<>>
    /\ MeetingList(fmt_segments) = <<>>
    /\ PersonList(fmt_segments) = <<"Bob">>
    /\ fmt_first[1].meeting_place = ""
    /\ fmt_first[1].person = "Bob"

\* the segments split from lines a..b, in line order
RECURSIVE SegmentsOfLines(_, _)
SegmentsOfLines(a, b) ==
    IF b < a THEN <<>> ELSE SegmentsOfLines(a, b - 1) \o SegmentsOf(lines[b])

\* C18: the segments of the lines processed so far are, in line order, those
\* of the finalized events, then of the open event, then the held ones; the
\* concatenation of the returned events is the concatenation of the segments
\* of the processed lines, unless no event is returned, when every segment was
\* a held location.
C18_EventsPartitionSegmentsInOrder ==
    /\ pc \in {"merge", "after_loop"} =>
           Flatten(events) \o current_segments \o pending_location_segments =
               SegmentsOfLines(start_index, i - 1)
    /\ pc = "returned" =>
           IF events = <<>>
           THEN AllLocations(SegmentsOfLines(start_index, i - 1))
           ELSE Flatten(events) = SegmentsOfLines(start_index, i - 1)

\* C18: three lines were processed, a held location, an opening line and an
\* indented line that was split at its "PH:" segment, and three events were
\* returned
C18_Witness ==
    /\ pc = "returned"
    /\ start_index = 1
    /\ i = 4
    /\ AllLocations(SegmentsOf(lines[1]))
    /\ time_words(lines[2]) # <<>>
    /\ events = << <<"ZOOM", "Staff Meeting">>, <<"memo">>, <<"PH: Bob">> >>

\* C19: at every line boundary, location segments are held only while no
\* event is open.
C19_HeldOnlyWhileNoEventOpen ==
    (pc \in {"merge", "after_loop"} /\ pending_location_segments # <<>>) =>
        current_segments = <<>>

\* C19: after a finalized event, a line of time-column tokens and a line of
\* locations, the locations are held and no event is open
C19_Witness ==
    /\ pc = "merge"
    /\ i = 4
    /\ events = << <<"Staff Meeting">> >>
    /\ pending_location_segments = <<"ZOOM">>
    /\ current_segments = <<>>

=============================================================================
